---- MODULE Spec2Model ----
(***************************************************************************)
(* Model of gamelocker.api.Gamelocker (src/gamelocker/api.py): the client  *)
(* state (apikey, _apiurl, title, region), the request construction of     *)
(* _req, the document handling of _get and the batched pagination of       *)
(* matches().  A blocking requests.get is split in two steps: the request  *)
(* is handed to the transport (it is "in flight") and the transport        *)
(* answers with a 2xx document or with a non-2xx status.                   *)
(*                                                                         *)
(* Python values: None is the empty tuple, a supplied scalar x is <<x>>,   *)
(* a supplied date argument is <<"str", s>> or <<"datetime", dt>>.  A      *)
(* JSON value that may be an object or an array is <<"object", o>> or      *)
(* <<"array", seq>>.                                                       *)
(***************************************************************************)
EXTENDS Integers, Sequences, FiniteSets, TLC

VARIABLES apikey, _apiurl, title, region,
          pc, op, args, params, limit, offset, batches, matches,
          sent, inflight, received, result

vars == <<apikey, _apiurl, title, region,
          pc, op, args, params, limit, offset, batches, matches,
          sent, inflight, received, result>>

client == <<apikey, _apiurl, title, region>>

-----------------------------------------------------------------------------
(* Bounds of the explored inputs *)

MaxLimit == 120
MaxOffset == 60

(* Program constants *)

max_limit == 50

None == <<>>

-----------------------------------------------------------------------------
(* Inputs *)

ApiKeys == {"getoffmylawn", "k2"}
Datacenters == {"dc01"}
Regions == {"na", "eu"}
ElIds == {"abc123", "m2"}

LimitArgs ==
    {None} \cup
    { <<l>> : l \in { n \in (0 - 30)..MaxLimit :
                        \/ n % 30 = 0
                        \/ n % max_limit \in {0, 1, max_limit - 1}
                        \/ n = MaxLimit } }

OffsetArgs == {None, <<0>>, <<MaxOffset>>}

SortArgs == {None, <<"createdAt">>}
PlayerArgs == {None, <<"shutterfly">>}
TeamArgs == {None, <<"teamA">>}

DateTimes ==
    { [year |-> 2017, month |-> 2, day |-> 9, hour |-> 14, minute |-> 5,
       second |-> 0, microsecond |-> 0] }

StartArgs == {None, <<"str", "2017-02-09T14:05:00">>}
EndArgs == {None} \cup { <<"datetime", dt>> : dt \in DateTimes }

MatchesArgs ==
    [limit : LimitArgs, offset : OffsetArgs, sort : SortArgs,
     player : PlayerArgs, team : TeamArgs,
     createdAtStart : StartArgs, createdAtEnd : EndArgs]

-----------------------------------------------------------------------------
(* Python helpers *)

Min(a, b) == IF a <= b THEN a ELSE b

(* 0 counts as a supplied value *)
TruthyInt_zero(a) == a # None

(* truth value of an int-or-None argument: None and 0 are false *)
TruthyInt(a) == a # None /\ a[1] # 0

(* truth value of a str-or-None argument: None and "" are false *)
TruthyStr(a) == a # None /\ a[1] # ""

(* truth value of a date argument: None and "" are false, a datetime is true *)
TruthyDate(a) == a # None /\ (a[1] = "str" => a[2] # "")

Digit == <<"0", "1", "2", "3", "4", "5", "6", "7", "8", "9">>

Pad(n, w) ==
    LET RECURSIVE P(_, _)
        P(m, k) == IF k = 0 THEN "" ELSE P(m \div 10, k - 1) \o Digit[(m % 10) + 1]
    IN P(n, w)

(* datetime.datetime.isoformat() of a naive datetime *)
isoformat(dt) ==
    Pad(dt.year, 4) \o "-" \o Pad(dt.month, 2) \o "-" \o Pad(dt.day, 2) \o "T" \o
    Pad(dt.hour, 2) \o ":" \o Pad(dt.minute, 2) \o ":" \o Pad(dt.second, 2) \o
    (IF dt.microsecond = 0 THEN "" ELSE "." \o Pad(dt.microsecond, 6))

(* list(range(start, stop, step)) for step > 0 *)
range(start, stop, step) ==
    LET n == IF stop <= start THEN 0 ELSE (stop - start + step - 1) \div step
    IN [k \in 1..n |-> start + (k - 1) * step]

(* d[k] = v on a dict *)
SetItem(d, k, v) == (k :> v) @@ d

-----------------------------------------------------------------------------
(* Response documents the service can answer with *)

NoRel == <<>>

Ref(id, type) == [id |-> id, type |-> type]

Roster1 == [id |-> "r1", type |-> "roster", attributes |-> [name |-> "left"],
            relationships |-> NoRel]
Roster2 == [id |-> "r2", type |-> "roster", attributes |-> [name |-> "right"],
            relationships |-> NoRel]
Player1 == [id |-> "p1", type |-> "player", attributes |-> [name |-> "shutterfly"],
            relationships |-> NoRel]
Match1 == [id |-> "abc123", type |-> "match", attributes |-> [name |-> "ranked"],
           relationships |->
               <<[name |-> "rosters",
                  data |-> <<Ref("r1", "roster"), Ref("r2", "roster")>>],
                 [name |-> "players", data |-> <<Ref("p1", "player")>>]>>]
Match2 == [id |-> "m2", type |-> "match", attributes |-> [name |-> "casual"],
           relationships |->
               <<[name |-> "rosters", data |-> <<Ref("r2", "roster")>>]>>]
Odd1 == [id |-> "x1", type |-> "hologram", attributes |-> [name |-> "odd"],
         relationships |-> NoRel]

(* documents whose data is a single resource object *)
ObjectDocs ==
    { [data |-> <<"object", Match1>>, included |-> <<Roster1, Roster2, Player1>>],
      [data |-> <<"object", Match1>>, included |-> <<Roster2>>],
      [data |-> <<"object", Match2>>],
      [data |-> <<"object", Player1>>, included |-> <<>>] }

(* documents whose data is an array of resource objects *)
ArrayDocs ==
    { [data |-> <<"array", <<Match1, Match2>>>>, included |-> <<Roster2, Player1>>],
      [data |-> <<"array", <<Odd1>>>>, included |-> <<Roster1>>],
      [data |-> <<"array", <<>>>>] }

StatusBodies == { [version |-> "v1.0.5"] }

-----------------------------------------------------------------------------
(* gamelocker.datatypes: materialization and linking of entities *)

KnownTypes == {"match", "player", "roster", "participant", "asset"}

data_to_object(raw) ==
    [id |-> raw.id, type |-> raw.type,
     class |-> IF raw.type \in KnownTypes THEN raw.type ELSE "generic",
     attributes |-> raw.attributes,
     relationships |-> raw.relationships,
     linked |-> <<>>]

(* the objects of pool a relationship's references resolve to, in reference order *)
Resolve(refs, pool) ==
    LET Hit(r) == { j \in 1..Len(pool) : pool[j].id = r.id /\ pool[j].type = r.type }
        found == SelectSeq(refs, LAMBDA r : Hit(r) # {})
    IN [i \in 1..Len(found) |->
            pool[CHOOSE j \in Hit(found[i]) : \A k \in Hit(found[i]) : j <= k]]

link_to_object(obj, pool) ==
    [obj EXCEPT !.linked =
        [i \in 1..Len(obj.relationships) |->
            [name |-> obj.relationships[i].name,
             objects |-> Resolve(obj.relationships[i].data, pool)]]]

-----------------------------------------------------------------------------
(* the key goes out without its scheme *)
Headers_nobearer ==
    ("Authorization" :> apikey) @@
    ("X-TITLE-ID" :> title) @@
    ("Accept" :> "application/vnd.api+json")

(* Gamelocker._req: the request handed to requests.get *)

Headers ==
    ("Authorization" :> "Bearer " \o apikey) @@
    ("X-TITLE-ID" :> title) @@
    ("Accept" :> "application/vnd.api+json")

_req(method, p) ==
    [url |-> _apiurl \o method, headers |-> Headers, params |-> p]

(* an unset region falls back to the default shard *)
_get_request_default(endpoint, elid, p) ==
    _req("shards/" \o (IF region = "" THEN "na" ELSE region) \o "/" \o
         endpoint \o "/" \o elid, p)

(* Gamelocker._get, first half: the request for an endpoint and element id *)
_get_request(endpoint, elid, p) ==
    _req("shards/" \o region \o "/" \o endpoint \o "/" \o elid, p)

(* the pool keeps only the entity included last *)
_get_lastpool(data) ==
    LET includes ==
            IF "included" \in DOMAIN data /\ data.included # <<>>
            THEN <<data_to_object(data.included[Len(data.included)])>>
            ELSE <<>>
    IN IF data.data[1] = "array"
       THEN <<"list", [i \in 1..Len(data.data[2]) |->
                          link_to_object(data_to_object(data.data[2][i]), includes)]>>
       ELSE <<"object", link_to_object(data_to_object(data.data[2]), includes)>>

(* Gamelocker._get, second half: the objects made of a response document *)
_get(data) ==
    LET includes ==
            IF "included" \in DOMAIN data
            THEN [i \in 1..Len(data.included) |-> data_to_object(data.included[i])]
            ELSE <<>>
    IN IF data.data[1] = "array"
       THEN <<"list", [i \in 1..Len(data.data[2]) |->
                          link_to_object(data_to_object(data.data[2][i]), includes)]>>
       ELSE <<"object", link_to_object(data_to_object(data.data[2]), includes)>>

-----------------------------------------------------------------------------
(* State machine *)

Init ==
    /\ apikey \in ApiKeys
    /\ \E datacenter \in Datacenters :
           _apiurl = "https://api." \o datacenter \o ".gamelockerapp.com/"
    /\ title = ""
    /\ region = ""
    /\ pc = "idle"
    /\ op = "none"
    /\ args = None
    /\ params = <<>>
    /\ limit = 0
    /\ offset = 0
    /\ batches = <<>>
    /\ matches = <<>>
    /\ sent = <<>>
    /\ inflight = <<>>
    /\ received = <<>>
    /\ result = <<"none">>

(* no local of matches() is live in the other operations *)
NoLocals ==
    /\ params' = <<>>
    /\ limit' = 0
    /\ offset' = 0
    /\ batches' = <<>>
    /\ matches' = <<>>

(* the caller holds no operation: nothing was called yet, or the last      *)
(* operation's outcome was taken                                           *)
Callable == pc = "idle"

(* a request is handed to the transport and the caller blocks on it *)
Send(r, log) ==
    /\ sent' = Append(log, r)
    /\ inflight' = <<r>>
    /\ pc' = "wait"
    /\ result' = <<"none">>

Vainglory(r) ==
    /\ Callable
    /\ title' = "semc-vainglory"
    /\ region' = r
    /\ UNCHANGED <<apikey, _apiurl, pc, op, args, params, limit, offset, batches,
                   matches, sent, inflight, received, result>>

status ==
    /\ Callable
    /\ op' = "status"
    /\ args' = None
    /\ Send(_req("status", None), <<>>)
    /\ received' = <<>>
    /\ NoLocals
    /\ UNCHANGED client

match(elid) ==
    /\ Callable
    /\ op' = "match"
    /\ args' = <<elid>>
    /\ Send(_get_request("matches", elid, None), <<>>)
    /\ received' = <<>>
    /\ NoLocals
    /\ UNCHANGED client

player(elid) ==
    /\ Callable
    /\ op' = "player"
    /\ args' = <<elid>>
    /\ Send(_get_request("players", elid, None), <<>>)
    /\ received' = <<>>
    /\ NoLocals
    /\ UNCHANGED client

(* sort goes out whether or not it was supplied *)
matches_params_sort(a) ==
    LET p1 == IF TruthyInt(a.limit) THEN SetItem(<<>>, "page[limit]", a.limit[1]) ELSE <<>>
        p2 == IF TruthyInt(a.offset) THEN SetItem(p1, "page[offset]", a.offset[1]) ELSE p1
        p3 == SetItem(p2, "sort", IF a.sort = None THEN "" ELSE a.sort[1])
        p4 == IF TruthyStr(a.player) THEN SetItem(p3, "filter[playerNames]", a.player[1]) ELSE p3
        p5 == IF TruthyStr(a.team) THEN SetItem(p4, "filter[teamNames]", a.team[1]) ELSE p4
        Str(d) == IF d[1] = "datetime" THEN isoformat(d[2]) ELSE d[2]
        p6 == IF TruthyDate(a.createdAtStart)
              THEN SetItem(p5, "filter[createdAt-start]", Str(a.createdAtStart)) ELSE p5
        p7 == IF TruthyDate(a.createdAtEnd)
              THEN SetItem(p6, "filter[createdAt-end]", Str(a.createdAtEnd)) ELSE p6
    IN p7

(* Gamelocker.matches, lines 166-189: the dict built from the arguments *)
matches_params(a) ==
    LET p1 == IF TruthyInt(a.limit) THEN SetItem(<<>>, "page[limit]", a.limit[1]) ELSE <<>>
        p2 == IF TruthyInt(a.offset) THEN SetItem(p1, "page[offset]", a.offset[1]) ELSE p1
        p3 == IF TruthyStr(a.sort) THEN SetItem(p2, "sort", a.sort[1]) ELSE p2
        p4 == IF TruthyStr(a.player) THEN SetItem(p3, "filter[playerNames]", a.player[1]) ELSE p3
        p5 == IF TruthyStr(a.team) THEN SetItem(p4, "filter[teamNames]", a.team[1]) ELSE p4
        Str(d) == IF d[1] = "datetime" THEN isoformat(d[2]) ELSE d[2]
        p6 == IF TruthyDate(a.createdAtStart)
              THEN SetItem(p5, "filter[createdAt-start]", Str(a.createdAtStart)) ELSE p5
        p7 == IF TruthyDate(a.createdAtEnd)
              THEN SetItem(p6, "filter[createdAt-end]", Str(a.createdAtEnd)) ELSE p6
    IN p7

(* the value limit has after lines 168-171 *)
matches_limit(a) == IF TruthyInt(a.limit) THEN a.limit[1] ELSE max_limit

(* the value offset has after lines 172-175 *)
matches_offset(a) == IF TruthyInt(a.offset) THEN a.offset[1] ELSE 0

(* the batch size is not shrunk to what is left of limit *)
batch_params_full(p, lim, off, batch) ==
    SetItem(SetItem(p, "page[limit]", max_limit), "page[offset]", batch + off)

(* lines 194-195: the parameters of the request of the batch starting at batch *)
batch_params(p, lim, off, batch) ==
    SetItem(SetItem(p, "page[limit]", Min(lim, max_limit)), "page[offset]", batch + off)

(* the batch's list goes in front of the earlier batches *)
matches_extend_front(ms, doc) == _get(doc)[2] \o ms

(* line 196: matches += the list _get made of the batch's document *)
matches_extend(ms, doc) == ms \o _get(doc)[2]

(* the loop stops at a batch that returned nothing *)
next_batches_short(bs, doc) == IF doc.data[2] = <<>> THEN <<>> ELSE Tail(bs)

(* line 193: the for loop takes the next value of range(0, limit, max_limit), *)
(* whatever the batch before it returned                                     *)
next_batches(bs, doc) == Tail(bs)

(* lines 193-199: run the loop from the batches bs that are left, up to the    *)
(* next blocking request or to the return                                    *)
matches_loop(p, lim, off, bs, ms, log) ==
    /\ limit' = lim
    /\ offset' = off
    /\ batches' = bs
    /\ matches' = ms
    /\ IF bs = <<>>
       THEN /\ params' = p
            /\ pc' = "done"
            /\ result' = <<"list", ms>>
            /\ sent' = log
            /\ inflight' = <<>>
       ELSE /\ params' = batch_params(p, lim, off, bs[1])
            /\ Send(_get_request("matches", "", <<params'>>), log)

matches_call(a) ==
    /\ Callable
    /\ op' = "matches"
    /\ args' = a
    /\ received' = <<>>
    /\ matches_loop(matches_params(a), matches_limit(a), matches_offset(a),
                    range(0, matches_limit(a), max_limit), <<>>, <<>>)
    /\ UNCHANGED client

(* requests.get answers 2xx with the JSON body doc: raise_for_status passes, *)
(* the body is parsed and the blocked operation goes on                      *)
HttpOK(doc) ==
    /\ pc = "wait"
    /\ received' = Append(received, doc)
    /\ UNCHANGED <<client, op, args>>
    /\ CASE op = "status" ->
              /\ doc \in StatusBodies
              /\ result' = <<"json", doc>>
              /\ pc' = "done"
              /\ inflight' = <<>>
              /\ UNCHANGED <<params, limit, offset, batches, matches, sent>>
         [] op \in {"match", "player"} ->
              /\ doc \in ObjectDocs \cup ArrayDocs
              /\ result' = _get(doc)
              /\ pc' = "done"
              /\ inflight' = <<>>
              /\ UNCHANGED <<params, limit, offset, batches, matches, sent>>
         [] op = "matches" ->
              /\ doc \in ArrayDocs
              /\ matches_loop(params, limit - max_limit, offset,
                              next_batches(batches, doc),
                              matches_extend(matches, doc), sent)

(* the failure is swallowed and what the earlier batches gave is returned *)
HttpError_partial ==
    /\ pc = "wait"
    /\ pc' = "done"
    /\ result' = <<"list", matches>>
    /\ inflight' = <<>>
    /\ UNCHANGED <<client, op, args, params, limit, offset, batches, matches,
                   sent, received>>

(* requests.get answers non-2xx: raise_for_status raises and the exception   *)
(* leaves the operation                                                      *)
HttpError ==
    /\ pc = "wait"
    /\ pc' = "raised"
    /\ result' = <<"raise", "HTTPError">>
    /\ inflight' = <<>>
    /\ UNCHANGED <<client, op, args, params, limit, offset, batches, matches,
                   sent, received>>

(* the caller takes the operation's outcome (its return value or its       *)
(* exception); the operation's locals are gone                             *)
Return ==
    /\ pc \in {"done", "raised"}
    /\ pc' = "idle"
    /\ op' = "none"
    /\ args' = None
    /\ result' = <<"none">>
    /\ sent' = <<>>
    /\ inflight' = <<>>
    /\ received' = <<>>
    /\ NoLocals
    /\ UNCHANGED client

Next ==
    \/ \E r \in Regions : Vainglory(r)
    \/ status
    \/ \E elid \in ElIds : match(elid)
    \/ \E elid \in ElIds : player(elid)
    \/ \E a \in MatchesArgs : matches_call(a)
    \/ \E doc \in StatusBodies \cup ObjectDocs \cup ArrayDocs : HttpOK(doc)
    \/ HttpError
    \/ Return

Spec == Init /\ [][Next]_vars

-----------------------------------------------------------------------------
(* Helpers of the properties *)

Ceil(a, b) == (a + b - 1) \div b

(* the query parameters of the i-th request of the running operation *)
Query(i) == sent[i].params[1]

(* the limit and offset a matches() call asks for, in the caller's terms *)
AskedLimit == IF args.limit = None \/ args.limit = <<0>> THEN max_limit ELSE args.limit[1]
AskedOffset == IF args.offset = None THEN 0 ELSE args.offset[1]

PageLimits == [i \in 1..Len(sent) |-> Query(i)["page[limit]"]]
PageOffsets == [i \in 1..Len(sent) |-> Query(i)["page[offset]"]]

-----------------------------------------------------------------------------
(* C1: for limit L > 0 and offset O >= 0, matches() issues ceil(L/50)      *)
(* requests when no request fails, and the i-th request (from 0) carries   *)
(* page[limit] = min(L - 50*i, 50) and page[offset] = O + 50*i.            *)
C1_BatchArithmetic ==
    (op = "matches" /\ args.limit # None /\ args.limit[1] > 0) =>
        LET L == args.limit[1]
            O == AskedOffset
        IN /\ \A i \in 1..Len(sent) :
                  /\ Query(i)["page[limit]"] = Min(L - 50 * (i - 1), 50)
                  /\ Query(i)["page[offset]"] = O + 50 * (i - 1)
           /\ Len(sent) <= Ceil(L, 50)
           /\ pc = "done" => Len(sent) = Ceil(L, 50)
           /\ (pc = "done" /\ L = 120 /\ O = 0) =>
                  /\ PageLimits = <<50, 50, 20>>
                  /\ PageOffsets = <<0, 50, 100>>
           /\ (pc = "done" /\ L = 30) => PageLimits = <<30>>

C1_Witness ==
    /\ op = "matches"
    /\ pc = "done"
    /\ args.limit = <<120>>
    /\ args.offset = <<MaxOffset>>
    /\ PageLimits = <<50, 50, 20>>
    /\ PageOffsets = <<MaxOffset, MaxOffset + 50, MaxOffset + 100>>

-----------------------------------------------------------------------------
(* the (id, type) pairs of a sequence of entities or objects *)
Keys(seq) == [i \in 1..Len(seq) |-> <<seq[i].id, seq[i].type>>]

(* the (id, type) pairs of the data lists of a sequence of documents, in order *)
RECURSIVE DataKeys(_)
DataKeys(docs) ==
    IF docs = <<>> THEN <<>>
    ELSE Keys(docs[1].data[2]) \o DataKeys(Tail(docs))

(* C2: the batch requests of one matches() call go out one after another,  *)
(* never two in flight, request i+1 only once the response to request i is *)
(* received and linked, and the returned list is the concatenation of the  *)
(* batches in request order, each in the order of its document's data.     *)
C2_SequentialBatches ==
    op = "matches" =>
        /\ Len(inflight) <= 1
        /\ Len(sent) = Len(received) + (IF pc = "wait" THEN Len(inflight)
                                        ELSE IF pc = "raised" THEN 1 ELSE 0)
        /\ pc = "wait" => inflight = <<sent[Len(sent)]>>
        /\ Keys(matches) = DataKeys(received)
        /\ \A i \in 1..Len(matches) : Len(matches[i].linked) = Len(matches[i].relationships)
        /\ pc = "done" => result[1] = "list" /\ Keys(result[2]) = DataKeys(received)

C2_Witness ==
    /\ op = "matches"
    /\ pc = "done"
    /\ Len(received) = 3
    /\ Keys(result[2]) = <<<<"x1", "hologram">>, <<"abc123", "match">>, <<"m2", "match">>,
                           <<"x1", "hologram">>>>

-----------------------------------------------------------------------------
(* the argument of matches() each query parameter stands for *)
ParamArg ==
    ("page[limit]" :> "limit") @@ ("page[offset]" :> "offset") @@ ("sort" :> "sort") @@
    ("filter[playerNames]" :> "player") @@ ("filter[teamNames]" :> "team") @@
    ("filter[createdAt-start]" :> "createdAtStart") @@
    ("filter[createdAt-end]" :> "createdAtEnd")

PageKeys == {"page[limit]", "page[offset]"}

(* C3, as stated: every query parameter of a matches() request, the two    *)
(* page parameters included, is present only if its argument was supplied. *)
C3_OnlySuppliedParams ==
    op = "matches" =>
        \A i \in 1..Len(sent) :
            /\ DOMAIN Query(i) \subseteq DOMAIN ParamArg
            /\ \A k \in DOMAIN Query(i) : args[ParamArg[k]] # None

(* C3, amended: sort and the four filter parameters are present only if    *)
(* their argument was supplied; page[limit] and page[offset] are present   *)
(* in every request, supplied or not.                                      *)
C3_OnlySuppliedFilters ==
    op = "matches" =>
        \A i \in 1..Len(sent) :
            /\ DOMAIN Query(i) \subseteq DOMAIN ParamArg
            /\ PageKeys \subseteq DOMAIN Query(i)
            /\ \A k \in DOMAIN Query(i) \ PageKeys : args[ParamArg[k]] # None

C3_Witness ==
    /\ op = "matches"
    /\ Len(sent) = 2
    /\ args.limit = <<60>>
    /\ args.offset = None
    /\ args.sort = None
    /\ args.team = None
    /\ args.createdAtStart = None
    /\ DOMAIN Query(2) = PageKeys \cup {"filter[playerNames]", "filter[createdAt-end]"}

-----------------------------------------------------------------------------
(* C4: a non-2xx response fails the operation at once: the request is not  *)
(* sent again, no request of a later batch goes out, and the operation     *)
(* raises instead of returning what the earlier batches gave.              *)
C4_FailFast ==
    [][/\ (pc = "wait" /\ received' = received) =>
              /\ pc' = "raised"
              /\ result' = <<"raise", "HTTPError">>
              /\ sent' = sent
              /\ inflight' = <<>>
       /\ pc = "raised" => (pc' = "idle" /\ sent' = <<>> /\ result' = <<"none">>)]_vars

C4_Witness ==
    /\ op = "matches"
    /\ pc = "raised"
    /\ Len(sent) = 2
    /\ Len(batches) = 2
    /\ matches # <<>>
    /\ result = <<"raise", "HTTPError">>

-----------------------------------------------------------------------------
(* C5: every request carries exactly the headers Authorization = "Bearer " *)
(* + the API key of the construction, Accept = application/vnd.api+json    *)
(* and X-TITLE-ID = the current title, which is "" until a title is        *)
(* selected and the supported game's title afterwards.                     *)
C5_Headers ==
    /\ \A i \in 1..Len(sent) :
           /\ DOMAIN sent[i].headers = {"Authorization", "Accept", "X-TITLE-ID"}
           /\ sent[i].headers["Authorization"] = "Bearer " \o apikey
           /\ sent[i].headers["Accept"] = "application/vnd.api+json"
           /\ sent[i].headers["X-TITLE-ID"] = title
    /\ \/ title = "" /\ region = ""
       \/ title = "semc-vainglory" /\ region \in Regions

C5_Witness ==
    /\ apikey = "k2"
    /\ title = "semc-vainglory"
    /\ op = "status"
    /\ Len(sent) = 1
    /\ sent[1].headers["Authorization"] = "Bearer k2"

-----------------------------------------------------------------------------
(* C6: shard-scoped requests use the path shards/<region>/<endpoint>[/<id>] *)
(* with the region of the last title selection: match(id) and player(id)   *)
(* ask for .../matches/<id> and .../players/<id>, matches() asks for       *)
(* exactly shards/<region>/matches with no trailing separator, and         *)
(* status() asks for status.                                               *)
C6_Paths ==
    region \in Regions =>
      \A i \in 1..Len(sent) :
        sent[i].url = _apiurl \o
            (CASE op = "status" -> "status"
               [] op = "match" -> "shards/" \o region \o "/matches/" \o args[1]
               [] op = "player" -> "shards/" \o region \o "/players/" \o args[1]
               [] op = "matches" -> "shards/" \o region \o "/matches")

-----------------------------------------------------------------------------
(* the (id, type) pairs of the entities a document includes *)
PoolKeys(doc) ==
    IF "included" \in DOMAIN doc
    THEN { Keys(doc.included)[i] : i \in 1..Len(doc.included) }
    ELSE {}

(* obj is the entity raw of doc, materialized and linked against all of    *)
(* doc's included entities: every reference that any included entity      *)
(* answers is resolved, in reference order, and no other                   *)
LinkedIn(obj, raw, doc) ==
    /\ obj.id = raw.id
    /\ obj.type = raw.type
    /\ Len(obj.linked) = Len(raw.relationships)
    /\ \A k \in 1..Len(raw.relationships) :
           Keys(obj.linked[k].objects) =
               SelectSeq(Keys(raw.relationships[k].data), LAMBDA key : key \in PoolKeys(doc))

ListOf(objs, doc) ==
    /\ Len(objs) = Len(doc.data[2])
    /\ \A i \in 1..Len(objs) : LinkedIn(objs[i], doc.data[2][i], doc)

RECURSIVE ListsOf(_, _)
ListsOf(objs, docs) ==
    IF docs = <<>> THEN objs = <<>>
    ELSE LET n == Len(docs[1].data[2])
         IN /\ Len(objs) >= n
            /\ ListOf(SubSeq(objs, 1, n), docs[1])
            /\ ListsOf(SubSeq(objs, n + 1, Len(objs)), Tail(docs))

(* C7: _get links every primary entity of a document against the pool of   *)
(* all of the document's included entities (the empty pool without an     *)
(* included section) and returns a result of the shape of data: one        *)
(* object for a single entity, a list of the same length and order for a   *)
(* list.                                                                   *)
C7_DocumentHandling ==
    /\ (op \in {"match", "player"} /\ pc = "done") =>
           LET doc == received[1]
           IN IF doc.data[1] = "array"
              THEN result[1] = "list" /\ ListOf(result[2], doc)
              ELSE result[1] = "object" /\ LinkedIn(result[2], doc.data[2], doc)
    /\ op = "matches" => ListsOf(matches, received)

C7_Witness ==
    /\ op = "match"
    /\ pc = "done"
    /\ received[1].data[1] = "object"
    /\ "included" \in DOMAIN received[1]
    /\ Len(received[1].included) = 3
    /\ result[1] = "object"
    /\ Keys(result[2].linked[1].objects) = <<<<"r1", "roster">>, <<"r2", "roster">>>>
    /\ Keys(result[2].linked[2].objects) = <<<<"p1", "player">>>>

-----------------------------------------------------------------------------
(* the endpoint and element id of the running shard-scoped operation *)
Endpoint == IF op = "player" THEN "players" ELSE "matches"
ElementId == IF op = "matches" THEN "" ELSE args[1]

(* C8: a shard-scoped call made before any title selection is not rejected *)
(* locally: the request goes out with an empty region in its path and an   *)
(* empty X-TITLE-ID, and the call fails only on a failure of the           *)
(* transport.                                                              *)
C8_NoLocalRejection ==
    (title = "" /\ op \in {"match", "player", "matches"}) =>
        /\ \A i \in 1..Len(sent) :
               /\ sent[i].url = _apiurl \o "shards//" \o Endpoint \o "/" \o ElementId
               /\ sent[i].headers["X-TITLE-ID"] = ""
        /\ (op = "matches" /\ args.limit # None /\ args.limit[1] < 0) \/ Len(sent) >= 1
        /\ pc = "raised" => Len(sent) = Len(received) + 1

C8_Witness ==
    /\ title = ""
    /\ region = ""
    /\ op = "player"
    /\ pc = "done"
    /\ Len(sent) = 1
    /\ result[1] = "object"

-----------------------------------------------------------------------------
(* the parameters of a request other than the two page parameters *)
Filters(q) == [k \in DOMAIN q \ PageKeys |-> q[k]]

(* C9: the number of requests of a matches() call and their parameters     *)
(* follow from the arguments alone: a batch that returns fewer entities    *)
(* than asked for, or none, neither ends the loop nor changes the page     *)
(* parameters of later batches, and all batches carry the same sort and    *)
(* filter parameters.                                                      *)
C9_ArgumentsDecide ==
    (op = "matches" /\ AskedLimit > 0) =>
        /\ \A i \in 1..Len(sent) :
               /\ Query(i)["page[limit]"] = Min(AskedLimit - max_limit * (i - 1), max_limit)
               /\ Query(i)["page[offset]"] = AskedOffset + max_limit * (i - 1)
               /\ Filters(Query(i)) = Filters(Query(1))
        /\ pc = "wait" => Len(sent) = Len(received) + 1
        /\ pc = "done" => Len(sent) = Ceil(AskedLimit, max_limit)

C9_Witness ==
    /\ op = "matches"
    /\ pc = "done"
    /\ Len(sent) = 3
    /\ Len(received[1].data[2]) = 0
    /\ Len(received[2].data[2]) = 1
    /\ Filters(Query(3)) =
           ("sort" :> "createdAt") @@ ("filter[teamNames]" :> "teamA") @@
           ("filter[createdAt-end]" :> "2017-02-09T14:05:00")

-----------------------------------------------------------------------------
(* C10: matches() takes a limit or offset of 0 as not supplied: with limit *)
(* omitted or 0 it issues one request with page[limit] = 50, with offset   *)
(* omitted or 0 the first request has page[offset] = 0; with a negative    *)
(* limit it issues no request and returns an empty list without raising.   *)
C10_ZeroAndNegative ==
    op = "matches" =>
        /\ args.limit \in {None, <<0>>} =>
               /\ Len(sent) = 1
               /\ Query(1)["page[limit]"] = 50
        /\ (args.offset \in {None, <<0>>} /\ Len(sent) >= 1) =>
               Query(1)["page[offset]"] = 0
        /\ (args.limit # None /\ args.limit[1] < 0) =>
               /\ sent = <<>>
               /\ received = <<>>
               /\ pc = "done"
               /\ result = <<"list", <<>>>>

C10_Witness ==
    /\ op = "matches"
    /\ pc = "done"
    /\ args.limit = <<0>>
    /\ args.offset = <<0>>
    /\ Len(sent) = 1
    /\ PageLimits = <<50>>
    /\ PageOffsets = <<0>>

====
